---- MODULE Spec2Model ----
(***************************************************************************)
(* Model of the custom Deserialize implementation of ForumTag             *)
(* (twilight-model/src/channel/forum.rs): ForumTagVisitor::visit_map as a  *)
(* state machine that consumes a map-like document one entry per loop      *)
(* iteration.                                                              *)
(***************************************************************************)
EXTENDS Integers, Sequences, FiniteSets, TLC

VARIABLES
    doc,         \* the document: the sequence of entries the MapAccess yields
    state,       \* "Scanning", "Completed", "Failed" or "Panicked"
    err,         \* the error returned when Failed
    result,      \* the set holding the ForumTag returned when Completed
    emoji_id,    \* the slot None::<Id<_>>
    emoji_name,  \* the slot None::<Option<String>>
    id,          \* the slot None::<Id<TagMarker>>
    moderated,   \* the slot None::<bool>
    name,        \* the slot None::<String>
    keysRead,    \* keys handed out by next_key()
    valuesRead,  \* values consumed by next_value(), extracted or ignored
    diag         \* trace events emitted

vars == <<doc, state, err, result, emoji_id, emoji_name, id, moderated, name,
          keysRead, valuesRead, diag>>

\* ------------------------------------------------------------------ bounds

\* Longest document of arbitrary entries (any key, any value, repeats allowed).
MaxLen == 3

\* Most entries with an unrecognized key in a document whose recognized keys
\* occur at most once each.
MaxUnknown == 1

\* ------------------------------------------------------------- wire values

\* A text is a sequence of one-character strings.  A document value has the
\* shapes of the serde data model (serde_value::Value):
\* `wrap` lists the wrappers from the outside in ("Some" for Option(Some(_)),
\* "Newtype" for Newtype(_)), `leaf` is the innermost shape and n, s, b hold the
\* payload of a U64, String or Bool leaf ("None" is Option(None), explicit null).
MkValue(wrap, leaf, n, s, b) == [wrap |-> wrap, leaf |-> leaf, n |-> n, s |-> s, b |-> b]

U64(n) == MkValue(<<>>, "U64", n, <<>>, FALSE)

Str(s) == MkValue(<<>>, "String", 0, s, FALSE)

Bool(b) == MkValue(<<>>, "Bool", 0, <<>>, b)

Null == MkValue(<<>>, "None", 0, <<>>, FALSE)

SomeOf(v) == [v EXCEPT !.wrap = <<"Some">> \o @]

NewtypeOf(v) == [v EXCEPT !.wrap = <<"Newtype">> \o @]

\* Option(Some(Newtype(String(s)))): the "wrapped text" shape.
Wrapped(s) == SomeOf(NewtypeOf(Str(s)))

\* --------------------------------------------------------------- the keys

\* enum Field, with rename_all = "snake_case".
Field == {"emoji_id", "emoji_name", "id", "moderated", "name"}

\* A key that is not a Field: next_key() returns Err for it.
UnknownKeys == {"flags"}

Entry(k, v) == [key |-> k, value |-> v]

\* ---------------------------------------------------------- pure functions

ParseErr == -1

DigitVal(c) ==
    CASE c = "0" -> 0
      [] c = "1" -> 1
      [] c = "2" -> 2
      [] c = "3" -> 3
      [] c = "4" -> 4
      [] c = "5" -> 5
      [] c = "6" -> 6
      [] c = "7" -> 7
      [] c = "8" -> 8
      [] c = "9" -> 9
      [] OTHER -> ParseErr

RECURSIVE ParseDigits(_, _)
\* Folds the digits of s onto acc, most significant first; ParseErr on a
\* character that is not a digit.
ParseDigits(s, acc) ==
    IF s = <<>> THEN acc
    ELSE IF DigitVal(Head(s)) = ParseErr THEN ParseErr
    ELSE ParseDigits(Tail(s), acc * 10 + DigitVal(Head(s)))

\* str::parse::<u64>: an optional leading "+", then one or more decimal
\* digits; anything else is an error.  (Texts here are far shorter than the
\* 20 digits a u64 overflow needs.)
ParseU64(s) ==
    IF s = <<>> THEN ParseErr
    ELSE IF Head(s) = "+"
         THEN (IF Tail(s) = <<>> THEN ParseErr ELSE ParseDigits(Tail(s), 0))
         ELSE ParseDigits(s, 0)

\* Results of resolving an emoji_id value.
NoId == [kind |-> "None", n |-> 0]

SomeId(n) == [kind |-> "Some", n |-> n]

Panic == [kind |-> "Panic", n |-> 0]

\* PossibleId that reads only the direct integer shape.
PossibleIdDirectOnly(v) ==
    IF v.wrap = <<>> /\ v.leaf = "U64" THEN SomeId(v.n) ELSE NoId

\* PossibleId that also parses a bare text.
PossibleIdBareText(v) ==
    IF v.wrap = <<>> /\ v.leaf = "U64" THEN SomeId(v.n)
    ELSE IF v.leaf = "String" /\ v.wrap \in {<<>>, <<"Some", "Newtype">>}
    THEN IF ParseU64(v.s) = ParseErr THEN Panic ELSE SomeId(ParseU64(v.s))
    ELSE NoId

\* The match that computes possible_id: Some(val) for a direct U64, the parsed
\* text for Option(Some(Newtype(String))), None for every other shape; the
\* unwrap() of a failed parse panics.
PossibleId(v) ==
    IF v.wrap = <<>> /\ v.leaf = "U64" THEN SomeId(v.n)
    ELSE IF v.wrap # <<>> /\ Head(v.wrap) = "Some"
    THEN IF Len(v.wrap) >= 2 /\ v.wrap[2] = "Newtype"
         THEN IF Len(v.wrap) = 2 /\ v.leaf = "String"
              THEN IF ParseU64(v.s) = ParseErr THEN Panic ELSE SomeId(ParseU64(v.s))
              ELSE NoId
         ELSE NoId
    ELSE NoId

\* IdGuard that lets zero through.
IdGuardNonNegative(n) == n >= 0

\* `if id > 0`: only a positive possible_id is stored.
IdGuard(n) == n > 0

\* Typed extraction, map.next_value::<T>(): the value or ExtractErr.
ExtractErr == [ok |-> FALSE, n |-> 0, s |-> <<>>, b |-> FALSE, some |-> FALSE]

ExtractOk(n, s, b, some) == [ok |-> TRUE, n |-> n, s |-> s, b |-> b, some |-> some]

\* next_value::<bool>()
ExtractBool(v) ==
    IF v.wrap = <<>> /\ v.leaf = "Bool" THEN ExtractOk(0, <<>>, v.b, TRUE) ELSE ExtractErr

\* next_value::<String>()
ExtractString(v) ==
    IF v.wrap = <<>> /\ v.leaf = "String" THEN ExtractOk(0, v.s, FALSE, TRUE) ELSE ExtractErr

\* next_value::<Option<String>>(): null is None, a text (bare or inside
\* Some) is Some(text).
ExtractOptString(v) ==
    IF v.wrap = <<>> /\ v.leaf = "None" THEN ExtractOk(0, <<>>, FALSE, FALSE)
    ELSE IF v.wrap \in {<<>>, <<"Some">>} /\ v.leaf = "String" THEN ExtractOk(0, v.s, FALSE, TRUE)
    ELSE ExtractErr

\* next_value::<Id<TagMarker>>(): a snowflake, given as an integer or as a
\* text of digits, bare or inside a newtype wrapper; zero is not a snowflake.
ExtractId(v) ==
    IF v.wrap \in {<<>>, <<"Newtype">>} /\ v.leaf = "U64" /\ v.n > 0
    THEN ExtractOk(v.n, <<>>, FALSE, TRUE)
    ELSE IF v.wrap \in {<<>>, <<"Newtype">>} /\ v.leaf = "String" /\ ParseU64(v.s) > 0
    THEN ExtractOk(ParseU64(v.s), <<>>, FALSE, TRUE)
    ELSE ExtractErr

\* -------------------------------------------------------------- documents

EmojiIdValues ==
    { U64(0), U64(1), Null, Wrapped(<<"0">>), Wrapped(<<"2">>), Wrapped(<<"+", "1">>),
      Wrapped(<<"a">>), SomeOf(NewtypeOf(U64(1))), SomeOf(Str(<<"1">>)), Str(<<"1">>) }

EmojiNameValues == { Null, Str(<<"a">>), Bool(TRUE) }

IdValues == { NewtypeOf(Str(<<"2">>)), Str(<<"1">>), U64(0) }

ModeratedValues == { Bool(FALSE), Bool(TRUE), Str(<<"a">>) }

NameValues == { Str(<<"a">>), Str(<<>>), U64(1) }

UnknownValues == { U64(1) }

ValuesOf(k) ==
    CASE k = "emoji_id" -> EmojiIdValues
      [] k = "emoji_name" -> EmojiNameValues
      [] k = "id" -> IdValues
      [] k = "moderated" -> ModeratedValues
      [] k = "name" -> NameValues
      [] OTHER -> UnknownValues

\* The values of the documents whose recognized keys occur at most once.
OnceValuesOf(k) ==
    CASE k = "emoji_id" -> { U64(0), U64(1), Null, Wrapped(<<"0">>), Wrapped(<<"2">>),
                             Wrapped(<<"a">>), Str(<<"1">>) }
      [] k = "emoji_name" -> { Null, Str(<<"a">>) }
      [] k = "id" -> { NewtypeOf(Str(<<"2">>)), Str(<<"1">>) }
      [] k = "moderated" -> { Bool(FALSE), Bool(TRUE) }
      [] k = "name" -> { Str(<<"a">>) }
      [] OTHER -> UnknownValues

Entries == UNION { { Entry(k, v) : v \in ValuesOf(k) } : k \in Field \cup UnknownKeys }

RECURSIVE OnceKeysFrom(_, _)
\* The key sequences over the recognized keys in `keys`, each at most once and
\* in any order, with at most `unknown` unrecognized keys in between.
OnceKeysFrom(keys, unknown) ==
    {<<>>}
    \cup UNION { { <<k>> \o ks : ks \in OnceKeysFrom(keys \ {k}, unknown) } : k \in keys }
    \cup (IF unknown = 0 THEN {}
          ELSE { <<k>> \o ks : k \in UnknownKeys, ks \in OnceKeysFrom(keys, unknown - 1) })

OnceKeys == OnceKeysFrom(Field, MaxUnknown)

\* The values to choose from for key k of the key sequence ks.
ChoicesFor(ks, k) ==
    IF \E i \in 1..Len(ks) : ks[i] = k THEN OnceValuesOf(k) ELSE {Null}

\* The document with the keys ks in that order and the chosen value for each.
OnceDoc(ks, ve, vn, vi, vm, va) ==
    [ i \in 1..Len(ks) |->
        Entry(ks[i], CASE ks[i] = "emoji_id" -> ve
                       [] ks[i] = "emoji_name" -> vn
                       [] ks[i] = "id" -> vi
                       [] ks[i] = "moderated" -> vm
                       [] ks[i] = "name" -> va
                       [] OTHER -> U64(1)) ]

\* ------------------------------------------------------------ the decoder

NoErr == [kind |-> "None", field |-> ""]

DuplicateField(f) == [kind |-> "DuplicateField", field |-> f]

MissingField(f) == [kind |-> "MissingField", field |-> f]

\* The deserializer's own error for a value of the wrong type.
InvalidValue == [kind |-> "InvalidValue", field |-> ""]

\* Option slots of visit_map.
NoName == [seen |-> FALSE, some |-> FALSE, s |-> <<>>]

NoTagId == [some |-> FALSE, n |-> 0]

NoBool == [some |-> FALSE, b |-> FALSE]

NoString == [some |-> FALSE, s |-> <<>>]

\* Assemble with the required slots checked in the order moderated, id, name.
AssembleModeratedFirst(eid, ename, i, m, n) ==
    IF ~m.some THEN [ok |-> FALSE, err |-> MissingField("moderated"), tag |-> {}]
    ELSE IF ~i.some THEN [ok |-> FALSE, err |-> MissingField("id"), tag |-> {}]
    ELSE IF ~n.some THEN [ok |-> FALSE, err |-> MissingField("name"), tag |-> {}]
    ELSE [ok |-> TRUE, err |-> NoErr,
          tag |-> {[emoji_id |-> eid,
                    emoji_name |-> [some |-> ename.seen /\ ename.some,
                                    s |-> IF ename.seen /\ ename.some THEN ename.s ELSE <<>>],
                    id |-> i.n, moderated |-> m.b, name |-> n.s]}]

\* Assemble that leaves emoji_name out of the ForumTag.
AssembleNoEmojiName(eid, ename, i, m, n) ==
    IF ~i.some THEN [ok |-> FALSE, err |-> MissingField("id"), tag |-> {}]
    ELSE IF ~m.some THEN [ok |-> FALSE, err |-> MissingField("moderated"), tag |-> {}]
    ELSE IF ~n.some THEN [ok |-> FALSE, err |-> MissingField("name"), tag |-> {}]
    ELSE [ok |-> TRUE, err |-> NoErr,
          tag |-> {[emoji_id |-> eid,
                    emoji_name |-> [some |-> FALSE, s |-> <<>>],
                    id |-> i.n, moderated |-> m.b, name |-> n.s]}]

\* The struct expression that ends visit_map: emoji_name.unwrap_or_default(),
\* then the three ok_or_else(..)? in the order id, moderated, name.
Assemble(eid, ename, i, m, n) ==
    IF ~i.some THEN [ok |-> FALSE, err |-> MissingField("id"), tag |-> {}]
    ELSE IF ~m.some THEN [ok |-> FALSE, err |-> MissingField("moderated"), tag |-> {}]
    ELSE IF ~n.some THEN [ok |-> FALSE, err |-> MissingField("name"), tag |-> {}]
    ELSE [ok |-> TRUE, err |-> NoErr,
          tag |-> {[emoji_id |-> eid,
                    emoji_name |-> [some |-> ename.seen /\ ename.some,
                                    s |-> IF ename.seen /\ ename.some THEN ename.s ELSE <<>>],
                    id |-> i.n, moderated |-> m.b, name |-> n.s]}]

\* map.next_key(): Ok(Some(field)) for a recognized key, Err otherwise.
KeyIsField(k) == k \in Field

\* The decoder's state as one record: the locals of visit_map, the position in
\* the MapAccess and the outcome.
St ==
    [state |-> state, err |-> err, result |-> result, emoji_id |-> emoji_id,
     emoji_name |-> emoji_name, id |-> id, moderated |-> moderated, name |-> name,
     keysRead |-> keysRead, valuesRead |-> valuesRead, diag |-> diag]

\* The state at the top of visit_map: five empty slots, nothing read.
InitSt ==
    [state |-> "Scanning", err |-> NoErr, result |-> {}, emoji_id |-> NoId,
     emoji_name |-> NoName, id |-> NoTagId, moderated |-> NoBool, name |-> NoString,
     keysRead |-> 0, valuesRead |-> 0, diag |-> 0]

\* `return Err(e)` or a `?` that propagates e.
Fail(st, e) == [st EXCEPT !.state = "Failed", !.err = e]

\* next_key() handed out a key.
KeyRead(st) == [st EXCEPT !.keysRead = @ + 1]

\* next_value() consumed the value of the current key.
ValueRead(st) == [st EXCEPT !.valuesRead = @ + 1]

\* next_key() = Ok(None): leave the loop and assemble the ForumTag.
EndArm(st) ==
    LET a == Assemble(st.emoji_id, st.emoji_name, st.id, st.moderated, st.name) IN
    [st EXCEPT !.state = IF a.ok THEN "Completed" ELSE "Failed",
               !.err = a.err,
               !.result = a.tag]

\* UnknownArm that emits no trace event.
UnknownArmSilent(st) == ValueRead(KeyRead(st))

\* UnknownArm that rejects the unrecognized key.
UnknownArmDenies(st) == Fail(KeyRead(st), InvalidValue)

\* next_key() = Err(why): ignore the value, emit the trace event, continue.
UnknownArm(st) == [ValueRead(KeyRead(st)) EXCEPT !.diag = @ + 1]

\* EmojiIdArm that stores no emoji_id once an emoji_name text is in its slot.
EmojiIdArmUnlessNamed(st, v) ==
    IF st.emoji_id.kind = "Some"
    THEN Fail(KeyRead(st), DuplicateField("emoji_id"))
    ELSE LET possible_id == PossibleId(v)
             read == ValueRead(KeyRead(st))
         IN  IF possible_id.kind = "Panic"
             THEN [read EXCEPT !.state = "Panicked"]
             ELSE IF possible_id.kind = "Some" /\ IdGuard(possible_id.n) /\ ~st.emoji_name.some
             THEN [read EXCEPT !.emoji_id = SomeId(possible_id.n)]
             ELSE read

\* Field::EmojiId
EmojiIdArm(st, v) ==
    IF st.emoji_id.kind = "Some"
    THEN Fail(KeyRead(st), DuplicateField("emoji_id"))
    ELSE LET possible_id == PossibleId(v)
             read == ValueRead(KeyRead(st))
         IN  IF possible_id.kind = "Panic"
             THEN [read EXCEPT !.state = "Panicked"]
             ELSE IF possible_id.kind = "Some" /\ IdGuard(possible_id.n)
             THEN [read EXCEPT !.emoji_id = SomeId(possible_id.n)]
             ELSE read

\* EmojiNameArm that stores Some(None) whatever the value.
EmojiNameArmDropsText(st, v) ==
    IF st.emoji_name.seen
    THEN Fail(KeyRead(st), DuplicateField("emoji_name"))
    ELSE LET x == ExtractOptString(v)
             read == ValueRead(KeyRead(st))
         IN  IF x.ok
             THEN [read EXCEPT !.emoji_name = [seen |-> TRUE, some |-> FALSE, s |-> <<>>]]
             ELSE Fail(read, InvalidValue)

\* EmojiNameArm whose slot is an Option<String>: seen only when a text is in it.
EmojiNameArmSeenByValue(st, v) ==
    IF st.emoji_name.seen /\ st.emoji_name.some
    THEN Fail(KeyRead(st), DuplicateField("emoji_name"))
    ELSE LET x == ExtractOptString(v)
             read == ValueRead(KeyRead(st))
         IN  IF x.ok
             THEN [read EXCEPT !.emoji_name = [seen |-> TRUE, some |-> x.some, s |-> x.s]]
             ELSE Fail(read, InvalidValue)

\* Field::EmojiName
EmojiNameArm(st, v) ==
    IF st.emoji_name.seen
    THEN Fail(KeyRead(st), DuplicateField("emoji_name"))
    ELSE LET x == ExtractOptString(v)
             read == ValueRead(KeyRead(st))
         IN  IF x.ok
             THEN [read EXCEPT !.emoji_name = [seen |-> TRUE, some |-> x.some, s |-> x.s]]
             ELSE Fail(read, InvalidValue)

\* IdArm without the repeat test: the last id wins.
IdArmLastWins(st, v) ==
    LET x == ExtractId(v)
        read == ValueRead(KeyRead(st))
    IN  IF x.ok
        THEN [read EXCEPT !.id = [some |-> TRUE, n |-> x.n]]
        ELSE Fail(read, InvalidValue)

\* Field::Id
IdArm(st, v) ==
    IF st.id.some
    THEN Fail(KeyRead(st), DuplicateField("id"))
    ELSE LET x == ExtractId(v)
             read == ValueRead(KeyRead(st))
         IN  IF x.ok
             THEN [read EXCEPT !.id = [some |-> TRUE, n |-> x.n]]
             ELSE Fail(read, InvalidValue)

\* Field::Moderated
ModeratedArm(st, v) ==
    IF st.moderated.some
    THEN Fail(KeyRead(st), DuplicateField("moderated"))
    ELSE LET x == ExtractBool(v)
             read == ValueRead(KeyRead(st))
         IN  IF x.ok
             THEN [read EXCEPT !.moderated = [some |-> TRUE, b |-> x.b]]
             ELSE Fail(read, InvalidValue)

\* Field::Name
NameArm(st, v) ==
    IF st.name.some
    THEN Fail(KeyRead(st), DuplicateField("name"))
    ELSE LET x == ExtractString(v)
             read == ValueRead(KeyRead(st))
         IN  IF x.ok
             THEN [read EXCEPT !.name = [some |-> TRUE, s |-> x.s]]
             ELSE Fail(read, InvalidValue)

\* One iteration of the loop on entry e: the next_key() match, then `match key`.
VisitEntry(st, e) ==
    IF ~KeyIsField(e.key) THEN UnknownArm(st)
    ELSE CASE e.key = "emoji_id" -> EmojiIdArm(st, e.value)
           [] e.key = "emoji_name" -> EmojiNameArm(st, e.value)
           [] e.key = "id" -> IdArm(st, e.value)
           [] e.key = "moderated" -> ModeratedArm(st, e.value)
           [] e.key = "name" -> NameArm(st, e.value)

RECURSIVE DecodeFrom(_, _)
\* visit_map from state st on the entries d still to come.
DecodeFrom(st, d) ==
    IF st.state # "Scanning" THEN st
    ELSE IF d = <<>> THEN EndArm(st)
    ELSE DecodeFrom(VisitEntry(st, Head(d)), Tail(d))

\* ForumTag::deserialize on the whole document d.
Decode(d) == DecodeFrom(InitSt, d)

\* ------------------------------------------------------- the state machine

\* The entry the next loop iteration reads.
Cur == doc[keysRead + 1]

\* HasNext that goes on reading after the decode has ended.
HasNextAnyState == keysRead < Len(doc)

HasNext == state = "Scanning" /\ keysRead < Len(doc)

\* The decoder moves to state st; the document is only read.
Become(st) ==
    /\ state' = st.state
    /\ err' = st.err
    /\ result' = st.result
    /\ emoji_id' = st.emoji_id
    /\ emoji_name' = st.emoji_name
    /\ id' = st.id
    /\ moderated' = st.moderated
    /\ name' = st.name
    /\ keysRead' = st.keysRead
    /\ valuesRead' = st.valuesRead
    /\ diag' = st.diag
    /\ UNCHANGED doc

InitSlots ==
    /\ state = InitSt.state
    /\ err = InitSt.err
    /\ result = InitSt.result
    /\ emoji_id = InitSt.emoji_id
    /\ emoji_name = InitSt.emoji_name
    /\ id = InitSt.id
    /\ moderated = InitSt.moderated
    /\ name = InitSt.name
    /\ keysRead = InitSt.keysRead
    /\ valuesRead = InitSt.valuesRead
    /\ diag = InitSt.diag

Init ==
    /\ \E n \in 0..MaxLen : doc \in [1..n -> Entries]
    /\ InitSlots

InitOnce ==
    /\ \E ks \in OnceKeys :
         \E ve \in ChoicesFor(ks, "emoji_id"), vn \in ChoicesFor(ks, "emoji_name"),
            vi \in ChoicesFor(ks, "id"), vm \in ChoicesFor(ks, "moderated"),
            va \in ChoicesFor(ks, "name") :
             doc = OnceDoc(ks, ve, vn, vi, vm, va)
    /\ InitSlots

VisitEnd ==
    /\ state = "Scanning"
    /\ keysRead = Len(doc)
    /\ Become(EndArm(St))

VisitUnknown ==
    /\ HasNext
    /\ ~KeyIsField(Cur.key)
    /\ Become(UnknownArm(St))

VisitEmojiId ==
    /\ HasNext
    /\ Cur.key = "emoji_id"
    /\ Become(EmojiIdArm(St, Cur.value))

VisitEmojiName ==
    /\ HasNext
    /\ Cur.key = "emoji_name"
    /\ Become(EmojiNameArm(St, Cur.value))

VisitId ==
    /\ HasNext
    /\ Cur.key = "id"
    /\ Become(IdArm(St, Cur.value))

VisitModerated ==
    /\ HasNext
    /\ Cur.key = "moderated"
    /\ Become(ModeratedArm(St, Cur.value))

VisitName ==
    /\ HasNext
    /\ Cur.key = "name"
    /\ Become(NameArm(St, Cur.value))

Next ==
    \/ VisitEnd
    \/ VisitUnknown
    \/ VisitEmojiId
    \/ VisitEmojiName
    \/ VisitId
    \/ VisitModerated
    \/ VisitName

\* Decoding any document of at most MaxLen entries.
Spec == Init /\ [][Next]_vars

\* Decoding a document whose recognized keys occur at most once each.
SpecOnce == InitOnce /\ [][Next]_vars

\* Decoding a document of either kind.
SpecAny == (Init \/ InitOnce) /\ [][Next]_vars

\* ------------------------------------------------- the document, as given

\* Key k occurs in the document.
Occurs(k) == \E i \in 1..Len(doc) : doc[i].key = k

\* The number of entries of the document with key k.
KeyCount(k) == Cardinality({ i \in 1..Len(doc) : doc[i].key = k })

\* Entry j repeats a recognized key that an earlier entry has.
RepeatAt(j) == doc[j].key \in Field /\ \E i \in 1..(j - 1) : doc[i].key = doc[j].key

\* Entry j is the first entry of the document that repeats a recognized key.
FirstRepeatAt(j) == RepeatAt(j) /\ \A i \in 1..(j - 1) : ~RepeatAt(i)

\* The first required key the document lacks, in the order id, moderated, name.
FirstMissing ==
    IF ~Occurs("id") THEN "id" ELSE IF ~Occurs("moderated") THEN "moderated" ELSE "name"

\* The scan consumed every entry without raising an error.
ScannedAll ==
    /\ state \in {"Completed", "Failed"}
    /\ err.kind \notin {"DuplicateField", "InvalidValue"}

\* The value the document gives for key k (its first entry with that key).
ValueOf(k) == doc[CHOOSE j \in 1..Len(doc) : doc[j].key = k].value

IsKnown(e) == e.key \in Field

\* The document with every entry of an unrecognized key removed.
Known(d) == SelectSeq(d, IsKnown)

\* What the caller of deserialize observes.
Outcome(st) == [state |-> st.state, err |-> st.err, result |-> st.result]

\* The direct integer shape and the wrapped text shape of an emoji_id.
IsDirect(v) == v.wrap = <<>> /\ v.leaf = "U64"

IsWrappedText(v) == v.wrap = <<"Some", "Newtype">> /\ v.leaf = "String"

\* An emoji_id value whose number is exactly zero.
ZeroEmojiId(v) ==
    \/ IsDirect(v) /\ v.n = 0
    \/ IsWrappedText(v) /\ ParseU64(v.s) = 0

\* A value of a valid type for each key: a snowflake (or null) for emoji_id, a
\* text or null for emoji_name, a snowflake for id, a boolean, a text.
ValidEmojiId(v) ==
    \/ v = Null
    \/ IsDirect(v) /\ v.n > 0
    \/ IsWrappedText(v) /\ ParseU64(v.s) > 0

ValidEmojiName(v) == v = Null \/ (v.wrap \in {<<>>, <<"Some">>} /\ v.leaf = "String")

ValidId(v) ==
    /\ v.wrap \in {<<>>, <<"Newtype">>}
    /\ \/ v.leaf = "U64" /\ v.n > 0
       \/ v.leaf = "String" /\ ParseU64(v.s) > 0

ValidModerated(v) == v.wrap = <<>> /\ v.leaf = "Bool"

ValidName(v) == v.wrap = <<>> /\ v.leaf = "String"

\* The optional text, the number a value of a valid type stands for.
GivenOptText(v) ==
    IF v.leaf = "String" THEN [some |-> TRUE, s |-> v.s] ELSE [some |-> FALSE, s |-> <<>>]

GivenNumber(v) == IF v.leaf = "U64" THEN v.n ELSE ParseU64(v.s)

GivenEmojiId(v) == IF v.leaf = "None" THEN NoId ELSE SomeId(GivenNumber(v))

\* The emoji_name the document gives, absent when it has no such key.
GivenEmojiName ==
    IF Occurs("emoji_name") THEN GivenOptText(ValueOf("emoji_name"))
    ELSE [some |-> FALSE, s |-> <<>>]

\* An emoji_id value that is neither a direct integer nor a wrapped text that
\* parses as one.
Malformed(v) ==
    /\ ~(v.wrap = <<>> /\ v.leaf = "U64")
    /\ ~(v.wrap = <<"Some", "Newtype">> /\ v.leaf = "String" /\ ParseU64(v.s) # ParseErr)

\* ------------------------------------------------------------------ claims

\* C1: once the scan has read the first entry that repeats a recognized key,
\* the decode has failed with DuplicateField naming that key, raised at that
\* entry before its value is read, whatever the values of the two entries.
\* (Stated for the documents whose scan reaches that entry.)
C1_DuplicateKeyFails ==
    \A j \in 1..Len(doc) :
        (FirstRepeatAt(j) /\ keysRead >= j)
            => /\ state = "Failed"
               /\ err = DuplicateField(doc[j].key)
               /\ keysRead = j
               /\ valuesRead = j - 1

\* C2: once a second emoji_id key has been read the decode has failed with
\* DuplicateField("emoji_id"), whatever the shapes of the two values.
C2_EmojiIdRepeatFails ==
    \A j \in 1..keysRead :
        (doc[j].key = "emoji_id" /\ \E i \in 1..(j - 1) : doc[i].key = "emoji_id")
            => (state = "Failed" /\ err = DuplicateField("emoji_id"))

\* C3: a malformed emoji_id value never aborts the decode: after its entry is
\* read the decoder has not panicked or failed on it, the emoji_id slot is
\* empty, and a ForumTag decoded from a document with that one emoji_id entry
\* has emoji_id absent.
C3_MalformedEmojiIdIsAbsent ==
    \A j \in 1..keysRead :
        (doc[j].key = "emoji_id" /\ Malformed(doc[j].value) /\ ~RepeatAt(j))
            => /\ state # "Panicked"
               /\ keysRead = j => (emoji_id = NoId /\ err.kind \notin {"DuplicateField", "InvalidValue"})
               /\ (state = "Completed" /\ KeyCount("emoji_id") = 1)
                     => \A t \in result : t.emoji_id = NoId

\* C4: a document whose scan raises no error and that lacks a required key
\* fails with MissingField naming the first key it lacks in the order id,
\* moderated, name, wherever the keys it has stand in the document.
C4_MissingFieldOrder ==
    (ScannedAll /\ (~Occurs("id") \/ ~Occurs("moderated") \/ ~Occurs("name")))
        => (state = "Failed" /\ err = MissingField(FirstMissing) /\ result = {})

\* C4 witness: id and name both missing, moderated present, id reported.
C4_Witness ==
    /\ state = "Failed"
    /\ err = MissingField("id")
    /\ ~Occurs("id") /\ ~Occurs("name") /\ Occurs("moderated")
    /\ keysRead = Len(doc)

\* C5: entries of unrecognized keys never change the outcome: the decode ends
\* as the decode of the document without those entries ends (same ForumTag, or
\* same error kind and field), and such an entry is skipped, its value ignored,
\* with the scan going on.
C5_UnknownKeysIgnored ==
    /\ state # "Scanning" => Outcome(St) = Outcome(Decode(Known(doc)))
    /\ \A j \in 1..keysRead :
          (~IsKnown(doc[j]) /\ keysRead = j)
              => (valuesRead = j /\ (state = "Scanning" \/ j = Len(doc)))

\* C5 witness: a decode that completed on a document with an unrecognized
\* key between recognized ones.
C5_Witness ==
    /\ state = "Completed"
    /\ \E j \in 2..(Len(doc) - 1) : ~IsKnown(doc[j])

\* C6: an emoji_id given once, as the direct integer n > 0 or as the wrapped
\* text that parses to n > 0, is in the slot as n once its entry is read and is
\* the emoji_id of the decoded ForumTag (wrapped "2" gives 2, integer 1 gives 1).
C6_PositiveEmojiIdKept ==
    \A j \in 1..keysRead :
        doc[j].key = "emoji_id" =>
            LET v == doc[j].value IN
            /\ (IsDirect(v) /\ v.n > 0)
                 => (emoji_id = SomeId(v.n) /\ \A t \in result : t.emoji_id = SomeId(v.n))
            /\ (IsWrappedText(v) /\ ParseU64(v.s) > 0)
                 => (emoji_id = SomeId(ParseU64(v.s))
                     /\ \A t \in result : t.emoji_id = SomeId(ParseU64(v.s)))
            /\ v = Wrapped(<<"2">>) => emoji_id = SomeId(2)
            /\ v = U64(1) => emoji_id = SomeId(1)

\* C6 witness: a ForumTag decoded with emoji_id 2 from the wrapped text "2".
C6_Witness ==
    /\ state = "Completed"
    /\ Occurs("emoji_id")
    /\ ValueOf("emoji_id") = Wrapped(<<"2">>)
    /\ \E t \in result : t.emoji_id = SomeId(2)

\* C7: with the required keys present, a document whose emoji_id is zero
\* (integer 0 or wrapped text "0") decodes successfully to a ForumTag with
\* emoji_id absent and every other field as the document gives it.
C7_ZeroEmojiIdIsAbsent ==
    ( /\ state # "Scanning"
      /\ Occurs("emoji_id") /\ ZeroEmojiId(ValueOf("emoji_id"))
      /\ Occurs("id") /\ Occurs("moderated") /\ Occurs("name") )
        => /\ state = "Completed"
           /\ result = {[emoji_id |-> NoId,
                          emoji_name |-> GivenEmojiName,
                          id |-> GivenNumber(ValueOf("id")),
                          moderated |-> ValueOf("moderated").b,
                          name |-> ValueOf("name").s]}

\* C7 witness: the document name, moderated, id, emoji_name, emoji_id: 0
\* decoded with emoji_name present and emoji_id absent.
C7_Witness ==
    /\ state = "Completed"
    /\ Len(doc) = 5
    /\ doc[1].key = "name" /\ doc[2].key = "moderated" /\ doc[3].key = "id"
    /\ doc[4].key = "emoji_name" /\ doc[5] = Entry("emoji_id", U64(0))
    /\ \E t \in result : t.emoji_name.some /\ t.emoji_id = NoId

\* C8: a decoded ForumTag never has both emoji_id and emoji_name populated.
C8_AtMostOneEmoji ==
    state = "Completed" => \A t \in result : ~(t.emoji_id.kind = "Some" /\ t.emoji_name.some)

\* C9: a decode that has ended is Completed with a ForumTag or Failed with an
\* error, never both; it is Completed only if id, moderated and name each occur
\* exactly once in the document; a failed decode returns no ForumTag.
C9_TwoOutcomes ==
    /\ state # "Scanning" => state \in {"Completed", "Failed"}
    /\ state = "Completed"
         => /\ err = NoErr /\ Cardinality(result) = 1
            /\ KeyCount("id") = 1 /\ KeyCount("moderated") = 1 /\ KeyCount("name") = 1
    /\ state = "Failed" => (err # NoErr /\ result = {})

C11_EmojiNameVerbatim ==
    /\ state = "Completed"
         => /\ Cardinality(result) = 1
            /\ \A t \in result :
                 /\ (Occurs("emoji_name") /\ ValueOf("emoji_name").leaf = "String")
                      => t.emoji_name = [some |-> TRUE, s |-> ValueOf("emoji_name").s]
                 /\ (Occurs("emoji_name") /\ ValueOf("emoji_name") = Null) => ~t.emoji_name.some
                 /\ ~Occurs("emoji_name") => ~t.emoji_name.some
    /\ err # MissingField("emoji_name")
    /\ (~Occurs("emoji_name") /\ Occurs("id") /\ Occurs("moderated") /\ Occurs("name")
          /\ state \notin {"Scanning", "Panicked"})
         => state = "Completed"

\* C11 witness: a ForumTag decoded with the text "a" the document gives.
C11_Witness ==
    /\ state = "Completed"
    /\ Occurs("emoji_name")
    /\ ValueOf("emoji_name") = Str(<<"a">>)
    /\ \E t \in result : t.emoji_name = [some |-> TRUE, s |-> <<"a">>]

\* The entries of unrecognized keys among the first n of the document.
UnknownAmong(n) == Cardinality({ j \in 1..n : ~IsKnown(doc[j]) })

\* C12: the trace events emitted so far are one per entry of an unrecognized
\* key read so far, so a decode that completes has emitted as many as the
\* document has such entries; reading a recognized key, also one that fails,
\* emits none.
C12_OneEventPerUnknownKey ==
    /\ diag = UnknownAmong(keysRead)
    /\ state = "Completed" => diag = UnknownAmong(Len(doc))

\* C12 witness: a completed decode that emitted one event, for an entry that
\* is not the last.
C12_Witness ==
    /\ state = "Completed"
    /\ diag = 1
    /\ \E j \in 1..(Len(doc) - 1) : ~IsKnown(doc[j])

\* C13: a fatal error aborts at once and Failed is terminal: the step that
\* raises DuplicateField or a value-extraction error changes no slot, emits no
\* event and returns no ForumTag, a DuplicateField is raised with the repeated
\* key read and its value not, and once Failed nothing is read or changed.
C13_FatalErrorsAbort ==
    [][ /\ state = "Failed" => UNCHANGED vars
        /\ (state = "Scanning" /\ state' = "Failed"
              /\ err'.kind \in {"DuplicateField", "InvalidValue"})
             => /\ UNCHANGED <<emoji_id, emoji_name, id, moderated, name, diag, result>>
                /\ keysRead' = keysRead + 1
                /\ err'.kind = "DuplicateField" => valuesRead' = valuesRead
      ]_vars

\* C13 witness: failed on a repeated key whose value is unread, with entries
\* of the document still to come.
C13_Witness ==
    /\ state = "Failed"
    /\ err.kind = "DuplicateField"
    /\ valuesRead = keysRead - 1
    /\ keysRead < Len(doc)

\* The value v has a valid type for the key k of id, moderated, name, emoji_name.
ValidFor(k, v) ==
    CASE k = "id" -> ValidId(v)
      [] k = "moderated" -> ValidModerated(v)
      [] k = "name" -> ValidName(v)
      [] k = "emoji_name" -> ValidEmojiName(v)
      [] OTHER -> TRUE

\* Entry j raises an error when the scan reads it: it repeats id, moderated,
\* name or emoji_name, or gives one of them a value of the wrong type.
Offending(j) ==
    /\ doc[j].key \in {"id", "moderated", "name", "emoji_name"}
    /\ RepeatAt(j) \/ ~ValidFor(doc[j].key, doc[j].value)

EarliestOffending(j) == Offending(j) /\ \A i \in 1..(j - 1) : ~Offending(i)

\* The error entry j raises.
ErrorOf(j) == IF RepeatAt(j) THEN DuplicateField(doc[j].key) ELSE InvalidValue

\* C14: MissingField is raised only when every key and value of the document
\* has been consumed, and never for a document with an entry that raises an
\* error: once the scan reads the earliest such entry the decode has failed
\* there with that entry's error, whatever required keys the document lacks.
C14_MissingFieldOnlyAtEnd ==
    /\ err.kind = "MissingField"
         => /\ keysRead = Len(doc) /\ valuesRead = Len(doc)
            /\ \A j \in 1..Len(doc) : ~Offending(j)
    /\ \A j \in 1..Len(doc) :
         (EarliestOffending(j) /\ keysRead >= j)
             => (state = "Failed" /\ err = ErrorOf(j) /\ keysRead = j)

\* C14 witness: a document without id whose repeated name is what is reported.
C14_Witness ==
    /\ state = "Failed"
    /\ err = DuplicateField("name")
    /\ ~Occurs("id")
    /\ \E j \in 1..Len(doc) : EarliestOffending(j) /\ keysRead = j

\* C15: the decode is one left-to-right pass that terminates: never more keys
\* read than the document has entries, each key followed by at most its one
\* value, a step always possible while scanning, and the decode ends
\* Completed or Failed.
C15_SinglePassTerminates ==
    /\ keysRead <= Len(doc)
    /\ valuesRead <= keysRead
    /\ keysRead - valuesRead <= 1
    /\ state = "Scanning" => (valuesRead = keysRead /\ ENABLED Next)
    /\ state # "Scanning" => state \in {"Completed", "Failed"}

\* The entries of d with key k, in the order of d.
OfKey(d, k) == SelectSeq(d, LAMBDA e : e.key = k)

\* The entries of d in one fixed order of the keys.  Documents that are
\* permutations of each other, with each recognized key at most once, have
\* the same Canon.
Canon(d) ==
    OfKey(d, "emoji_id") \o OfKey(d, "emoji_name") \o OfKey(d, "id")
        \o OfKey(d, "moderated") \o OfKey(d, "name")
        \o SelectSeq(d, LAMBDA e : ~IsKnown(e))

\* C16: decoding does not depend on the order of the entries: a document with
\* each recognized key at most once and values that extract ends as its
\* entries in the fixed order of Canon end, and so as every permutation of it
\* ends (same ForumTag, or MissingField naming the same field).
C16_OrderIndependent ==
    ( /\ state # "Scanning"
      /\ \A k \in Field : KeyCount(k) <= 1
      /\ \A j \in 1..Len(doc) : ValidFor(doc[j].key, doc[j].value) )
        => Outcome(St) = Outcome(Decode(Canon(doc)))

\* C16 witness: a completed decode of a document whose five keys are not in
\* the fixed order.
C16_Witness ==
    /\ state = "Completed"
    /\ \A k \in Field : KeyCount(k) = 1
    /\ doc # Canon(doc)
    /\ doc[1].key = "name"

\* A bare text: a String inside no wrapper.
IsBareText(v) == v.wrap = <<>> /\ v.leaf = "String"

\* C17: an emoji_id given as a bare text is read without error and resolves
\* to absent even when the text is a positive number, and the emoji_id slot
\* only ever holds the number of an entry of the direct integer shape or of
\* the Option(Some(Newtype(String))) shape.
C17_BareTextEmojiIdIsAbsent ==
    /\ \A j \in 1..keysRead :
         (doc[j].key = "emoji_id" /\ IsBareText(doc[j].value))
             => /\ (keysRead = j /\ valuesRead = j)
                     => (state # "Panicked" /\ err.kind \notin {"DuplicateField", "InvalidValue"})
                /\ KeyCount("emoji_id") = 1
                     => (emoji_id = NoId /\ \A t \in result : t.emoji_id = NoId)
    /\ emoji_id.kind = "Some"
         => \E j \in 1..keysRead :
              /\ doc[j].key = "emoji_id"
              /\ IsDirect(doc[j].value) \/ IsWrappedText(doc[j].value)
              /\ GivenNumber(doc[j].value) = emoji_id.n

\* C17 witness: a ForumTag decoded with emoji_id absent from the bare text "1".
C17_Witness ==
    /\ state = "Completed"
    /\ KeyCount("emoji_id") = 1
    /\ ValueOf("emoji_id") = Str(<<"1">>)
    /\ \E t \in result : t.emoji_id = NoId

\* C18: whether emoji_name was seen is kept apart from its value: once a
\* second emoji_name key is read the decode has failed with
\* DuplicateField("emoji_name"), after a first explicit null as after a text.
C18_EmojiNameRepeatFails ==
    \A j \in 1..keysRead :
        (doc[j].key = "emoji_name" /\ \E i \in 1..(j - 1) : doc[i].key = "emoji_name")
            => (state = "Failed" /\ err = DuplicateField("emoji_name") /\ valuesRead = keysRead - 1)

\* C18 witness: failed on the second emoji_name after a first explicit null.
C18_Witness ==
    /\ state = "Failed"
    /\ err = DuplicateField("emoji_name")
    /\ ValueOf("emoji_name") = Null
    /\ KeyCount("emoji_name") >= 2

\* C19: the emoji_id slot is unset or holds a positive number in every state,
\* and no decoded ForumTag has an emoji_id of zero.
C19_EmojiIdNeverZero ==
    /\ emoji_id.kind \in {"None", "Some"}
    /\ emoji_id.kind = "Some" => emoji_id.n > 0
    /\ emoji_id.kind = "None" => emoji_id.n = 0
    /\ \A t \in result : t.emoji_id.kind = "Some" => t.emoji_id.n > 0

\* C19 witness: a zero emoji_id was read and left the slot unset, then a
\* positive one was stored.
C19_Witness ==
    /\ Len(doc) >= 2
    /\ doc[1] = Entry("emoji_id", U64(0))
    /\ doc[2] = Entry("emoji_id", U64(1))
    /\ keysRead = 2
    /\ emoji_id = SomeId(1)

====
